---- MODULE Spec2Model ----
(***************************************************************************)
(* Verification model of the candidate search pipeline of frb:             *)
(*   frb/search.py  search_candidates, search_candidates_ell,              *)
(*                  search_candidates_clf, fit_elliplse, create_ellipses   *)
(*   frb/utils.py   find_clusters_ell_amplitudes                           *)
(* Every function is a call: its arguments are fixed when the call starts  *)
(* and one action runs the whole body to its return or to the exception it *)
(* raises.  Images are small integer grids, rows = DM trials, columns =    *)
(* time samples, indexed from 0 as numpy does.                             *)
(***************************************************************************)
EXTENDS Integers, Sequences, FiniteSets, TLC

VARIABLES
  image,        \* search_candidates: the argument ``image``
  s_pc,         \* search_candidates: "call", "returned" or "raised"
  s_args,       \* search_candidates: n_d_x, n_d_y, t_0, d_t, d_dm
  s_objects,    \* search_candidates: the structured array ``_objects`` at line 147
  s_candidates, \* search_candidates: the returned list ``candidates``
  c_pc,         \* find_clusters_ell_amplitudes: "call", "returned", "raised"
  c_args,       \* find_clusters_ell_amplitudes: amplitudes, min_samples, eps
  c_out,        \* find_clusters_ell_amplitudes: labels, fitted population,
                \* tail bound and the returned threshold
  e_pc,         \* ellipse functions: "call", "returned" or "raised"
  e_call,       \* ellipse functions: the function called and its arguments
  e_fits,       \* ellipse functions: what the least-squares fit gives per region
  e_out,        \* ellipse functions: what the call did and returned
  p_pc,         \* create_ellipses: "start", "once", "twice" (calls made), "raised"
  p_args,       \* create_ellipses: the keyword arguments of both calls
  p_tdm,        \* create_ellipses: the caller's array ``tdm_image``
  p_before,     \* create_ellipses: the caller's array when the last call began
  p_first,      \* create_ellipses: the image the first call returned
  p_second      \* create_ellipses: the image the second call returned

searchVars == <<image, s_pc, s_args, s_objects, s_candidates>>
clusterVars == <<c_pc, c_args, c_out>>
ellVars == <<e_pc, e_call, e_fits, e_out>>
preVars == <<p_pc, p_args, p_tdm, p_before, p_first, p_second>>
vars == <<image, s_pc, s_args, s_objects, s_candidates, c_pc, c_args, c_out,
          e_pc, e_call, e_fits, e_out,
          p_pc, p_args, p_tdm, p_before, p_first, p_second>>

----------------------------------------------------------------------------
(* Bounds of the model *)
ImgH == 2
ImgW == 5
MaxPix == 3
ShapePix == 5
EllW == 9
EllPix == 3
PreW == 4
PrePix == 4
MaxVal == 2
MaxThr == 1
MaxStep == 2
MaxT0 == 1
MaxN == 4
MaxAmp == 5
SmallMinSamples == 2
MaxEps == 1

----------------------------------------------------------------------------
(* Helpers on sets and sequences *)
Abs(x) == IF x < 0 THEN -x ELSE x
SetMin(S) == CHOOSE x \in S : \A y \in S : x <= y
SetMax(S) == CHOOSE x \in S : \A y \in S : x >= y

\* The list f[1], ..., f[n], each element computed once
RECURSIVE ListFrom(_, _, _)
ListFrom(f, lo, hi) ==
  IF lo > hi THEN <<>>
  ELSE IF lo = hi THEN <<f[lo]>>
  ELSE LET mid == (lo + hi) \div 2
       IN ListFrom(f, lo, mid) \o ListFrom(f, mid + 1, hi)

AsList(f, n) == ListFrom(f, 1, n)

----------------------------------------------------------------------------
(* Images and 8-connected labelling: scipy.ndimage.label with              *)
(* generate_binary_structure(2, 2)                                         *)
Rows == 0 .. (ImgH - 1)
Cols == 0 .. (ImgW - 1)
Pixels == Rows \X Cols

\* Position of a pixel in the flattened (C order) array; a row length above
\* every column index of every array numbers the pixels in the same order
Raster(p) == p[1] * (ImgW + EllW + PreW) + p[2]

\* generate_binary_structure(2, 2): all eight neighbours are connected
generate_binary_structure(p, q) ==
  p # q /\ Abs(p[1] - q[1]) <= 1 /\ Abs(p[2] - q[2]) <= 1

NonZero(img) == {p \in DOMAIN img : img[p] # 0}

RECURSIVE Grow(_, _)
Grow(S, F) ==
  LET N == {q \in F \ S : \E p \in S : generate_binary_structure(p, q)}
  IN IF N = {} THEN S ELSE Grow(S \cup N, F)

\* The connected components of the non-zero pixels
Components(img) == LET F == NonZero(img) IN {Grow({p}, F) : p \in F}

FirstPixel(C) == SetMin({Raster(p) : p \in C})

\* label(a, structure=s): the components numbered 1.. in raster order of
\* their first pixel; the sequence of components stands for labeled_array
label(img) ==
  LET CS == Components(img)
  IN AsList([k \in 1 .. Cardinality(CS) |->
               CHOOSE C \in CS :
                 Cardinality({D \in CS : FirstPixel(D) < FirstPixel(C)}) = k - 1],
            Cardinality(CS))

\* find_objects / regionprops bbox: half-open (min_row, min_col, max_row, max_col)
bbox(C) ==
  <<SetMin({p[1] : p \in C}), SetMin({p[2] : p \in C}),
    SetMax({p[1] : p \in C}) + 1, SetMax({p[2] : p \in C}) + 1>>

\* The pixels of a region that hold the region's maximum: maximum_position
\* returns one of them (an argsort decides which when several are equal)
\* A position query that returns some pixel of the region, maximal or not
AnyPosition(img, C) == C

MaxPositions(img, C) == {p \in C : \A q \in C : img[q] <= img[p]}

----------------------------------------------------------------------------
(* find_clusters_ell_amplitudes: the amplitude threshold estimator.         *)
(* Amplitudes are positive integers.  eps is the number num / sqrt(rootden) *)
(* so that the default, data_range / sqrt(len(amplitudes)), is exact; the   *)
(* returned threshold min(...) - eps is kept as the pair (base, eps).       *)

\* Python's None, and a value that is not None
None == <<>>
Some(x) == <<x>>
NoError == "none"
DefaultMinSamples == 10

\* eps = num / sqrt(rootden): data_range / np.sqrt(len(amplitudes)) by default
Eps(num, rootden) == [num |-> num, rootden |-> rootden]

\* d <= eps for a distance d >= 0 and eps > 0
Within(d, eps) == d * d * eps.rootden <= eps.num * eps.num

\* radius_neighbors: the points within eps of point i, point i included
Neighbours(a, i, eps) ==
  {j \in 1 .. Len(a) : Within(Abs(a[i] - a[j]), eps)}

\* core samples: at least min_samples points in the neighbourhood
IsCore(a, i, eps, min_samples) ==
  Cardinality(Neighbours(a, i, eps)) >= min_samples

\* The points density-reachable from the points of S
RECURSIVE Reach(_, _, _, _)
Reach(a, S, eps, min_samples) ==
  LET N == {j \in (1 .. Len(a)) \ S :
              \E i \in S : /\ IsCore(a, i, eps, min_samples)
                           /\ j \in Neighbours(a, i, eps)}
  IN IF N = {} THEN S ELSE Reach(a, S \cup N, eps, min_samples)

\* dbscan_inner: points are visited in index order; an unlabelled core point
\* starts the next cluster, which takes every unlabelled point it reaches.
\* The visit goes straight to the next unlabelled core point at or after i.
RECURSIVE dbscan_inner(_, _, _, _, _, _)
dbscan_inner(a, i, labels, label_num, eps, min_samples) ==
  LET starts == {j \in i .. Len(a) :
                   labels[j] = -1 /\ IsCore(a, j, eps, min_samples)}
  IN IF starts = {} THEN labels
     ELSE LET k == SetMin(starts)
              R == Reach(a, {k}, eps, min_samples)
              new == AsList([j \in 1 .. Len(a) |->
                               IF j \in R /\ labels[j] = -1
                               THEN label_num ELSE labels[j]], Len(a))
          IN dbscan_inner(a, k + 1, new, label_num + 1, eps, min_samples)

\* DBSCAN(eps, min_samples).fit(data_).labels_
DBSCAN(a, eps, min_samples) ==
  dbscan_inner(a, 1, AsList([j \in 1 .. Len(a) |-> -1], Len(a)), 0,
               eps, min_samples)

Count(labels, l) == Cardinality({j \in 1 .. Len(labels) : labels[j] = l})

\* unique[np.argmax(unique_counts)]: the most frequent label; np.unique
\* sorts the labels and argmax takes the first maximum, so the lowest label
\* wins a tie
LargestClusterLabel(labels) ==
  LET U == {labels[j] : j \in 1 .. Len(labels)}
  IN CHOOSE l \in U :
       \A m \in U : \/ Count(labels, l) > Count(labels, m)
                    \/ Count(labels, l) = Count(labels, m) /\ l <= m

\* The outcome of a call that raises before it has clustered anything
Raised(exc) ==
  [exc |-> exc, labels |-> <<>>, population |-> None, tail |-> None,
   threshold |-> None]

\* return min(data[indx]) without the "- eps"
ThresholdWithoutEps(amplitudes, indx, eps) ==
  [base |-> SetMin({amplitudes[j] : j \in indx}), eps |-> Eps(0, 1)]

\* return min(data[indx]) - eps
Threshold(amplitudes, indx, eps) ==
  [base |-> SetMin({amplitudes[j] : j \in indx}), eps |-> eps]

\* value < thr.base - thr.eps and its converse, exactly
BelowThreshold(value, thr) ==
  /\ value < thr.base
  /\ (thr.base - value) * (thr.base - value) * thr.eps.rootden
       > thr.eps.num * thr.eps.num

AboveThreshold(value, thr) ==
  \/ value >= thr.base /\ thr.eps.num > 0
  \/ value > thr.base
  \/ /\ value < thr.base
     /\ (thr.base - value) * (thr.base - value) * thr.eps.rootden
          < thr.eps.num * thr.eps.num

\* find_clusters_ell_amplitudes that returns the tail bound itself when no
\* outlier lies above it (the "return threshold" left commented out at line 109)
find_clusters_returning_tail(amplitudes, min_samples, eps_arg, tail) ==
  IF amplitudes = <<>>
  THEN Raised("ValueError")
  ELSE
    LET vals == {amplitudes[j] : j \in 1 .. Len(amplitudes)}
        data_range == SetMax(vals) - SetMin(vals)
        eps == IF eps_arg = None THEN Eps(data_range, Len(amplitudes))
               ELSE Eps(eps_arg[1], 1)
    IN IF eps.num <= 0
       THEN Raised("ValueError")
       ELSE
         LET labels == DBSCAN(amplitudes, eps, min_samples)
             population == LargestClusterLabel(labels)
             indx == {j \in 1 .. Len(amplitudes) :
                        labels[j] = -1 /\ amplitudes[j] > tail}
         IN [exc |-> NoError, labels |-> labels,
             population |-> Some(population), tail |-> Some(tail),
             threshold |-> Some(IF indx = {}
                                THEN [base |-> tail, eps |-> Eps(0, 1)]
                                ELSE Threshold(amplitudes, indx, eps))]

\* The body of find_clusters_ell_amplitudes.  tail is distr.ppf(0.999) of the
\* Rayleigh distribution scipy fits to largest_cluster_data.
find_clusters_ell_amplitudes(amplitudes, min_samples, eps_arg, tail) ==
  IF amplitudes = <<>>
  THEN Raised("ValueError")          \* np.max of an empty array
  ELSE
    LET vals == {amplitudes[j] : j \in 1 .. Len(amplitudes)}
        data_range == SetMax(vals) - SetMin(vals)
        eps == IF eps_arg = None THEN Eps(data_range, Len(amplitudes))
               ELSE Eps(eps_arg[1], 1)
    IN IF eps.num <= 0
       THEN Raised("ValueError")     \* DBSCAN: eps must be positive
       ELSE
         LET labels == DBSCAN(amplitudes, eps, min_samples)
             population == LargestClusterLabel(labels)
             indx == {j \in 1 .. Len(amplitudes) :
                        labels[j] = -1 /\ amplitudes[j] > tail}
         IN IF indx = {}
            THEN [Raised("ValueError")   \* min() of an empty sequence
                    EXCEPT !.labels = labels, !.population = Some(population),
                           !.tail = Some(tail)]
            ELSE [exc |-> NoError, labels |-> labels,
                  population |-> Some(population), tail |-> Some(tail),
                  threshold |-> Some(Threshold(amplitudes, indx, eps))]

TailValues == 0 .. MaxAmp

----------------------------------------------------------------------------
(* search_candidates: the size-threshold strategy *)

\* All sequences that take their i-th element from the i-th set
RECURSIVE SeqProduct(_)
SeqProduct(sets) ==
  IF sets = <<>> THEN {<<>>}
  ELSE {<<x>> \o rest : x \in Head(sets), rest \in SeqProduct(Tail(sets))}

\* Candidate(t_0 + max_pos[1] * TimeDelta(d_t), max_pos[0] * float(d_dm)):
\* max_pos is (row, col), numpy index 0 is the row and index 1 the column
\* The conversion with the axes swapped: the row taken for the time sample
CandidateSwapped(max_pos, t_0, d_t, d_dm) ==
  [time |-> t_0 + max_pos[1] * d_t, dm |-> max_pos[2] * d_dm]

\* The conversion that loses the row
CandidateWithoutRow(max_pos, t_0, d_t, d_dm) ==
  [time |-> t_0 + max_pos[2] * d_t, dm |-> 0]

Candidate(max_pos, t_0, d_t, d_dm) ==
  [time |-> t_0 + max_pos[2] * d_t, dm |-> max_pos[1] * d_dm]

\* _objects[np.logical_and(_objects['dy'] > n_d_y, _objects['dx'] > n_d_x)]
Classify(objs, n_d_x, n_d_y) ==
  SelectSeq(objs, LAMBDA o : o.dy > n_d_y /\ o.dx > n_d_x)

\* Whether element i stands before element j in
\* _objects[np.lexsort((dx, dy))[::-1]]: lexsort orders ascending by dy, then
\* by dx, and is stable; the reversal turns all three around
Before(objs, i, j) ==
  \/ objs[i].dy > objs[j].dy
  \/ objs[i].dy = objs[j].dy /\ objs[i].dx > objs[j].dx
  \/ objs[i].dy = objs[j].dy /\ objs[i].dx = objs[j].dx /\ i > j

\* lexsort with the two keys exchanged, np.lexsort((dy, dx))[::-1]:
\* descending by dx, then by dy
lexsort_keys_swapped(objs) ==
  LET before(i, j) ==
        \/ objs[i].dx > objs[j].dx
        \/ objs[i].dx = objs[j].dx /\ objs[i].dy > objs[j].dy
        \/ objs[i].dx = objs[j].dx /\ objs[i].dy = objs[j].dy /\ i > j
  IN AsList([k \in 1 .. Len(objs) |->
               objs[CHOOSE i \in 1 .. Len(objs) :
                      Cardinality({j \in 1 .. Len(objs) : before(j, i)}) = k - 1]],
            Len(objs))

\* _objects[np.lexsort((_objects['dx'], _objects['dy']))[::-1]], line 147:
\* the last key, dy, is the primary one
lexsort_reversed(objs) ==
  AsList([k \in 1 .. Len(objs) |->
            objs[CHOOSE i \in 1 .. Len(objs) :
                   Cardinality({j \in 1 .. Len(objs) : Before(objs, j, i)}) = k - 1]],
         Len(objs))

\* The structured array _objects as filled at lines 133-140
RegionObjects(img) ==
  LET L == label(img)
  IN AsList([k \in 1 .. Len(L) |->
               [label |-> k,
                dx |-> bbox(L[k])[4] - bbox(L[k])[2],
                dy |-> bbox(L[k])[3] - bbox(L[k])[1],
                region |-> L[k]]],
            Len(L))

StepValues == 1 .. MaxStep
T0Values == 0 .. MaxT0
ThrValues == 0 .. MaxThr

----------------------------------------------------------------------------
(* fit_elliplse and the functions that fit every region of an image.       *)
(* The fitted Gaussian2D is what astropy's LevMarLSQFitter returns for the  *)
(* region: one value per region and call, the same at every fit of that     *)
(* region.  theta is held in degrees, a multiple of 60: the fitted value is  *)
(* the double np.radians(theta).  np.cos and np.rad2deg of that double are  *)
(* kept as the exact value and the sign of the double's excess over it, so  *)
(* that a comparison with a limit comes out as it does in doubles.          *)

\* regionprops(labeled_array, intensity_image=image): one entry per label
regionprops(img) ==
  LET L == label(img)
  IN AsList([k \in 1 .. Len(L) |->
               [label |-> k, region |-> L[k], bbox |-> bbox(L[k]),
                area |-> Cardinality(L[k])]],
            Len(L))

\* prop.intensity_image: the bounding-box patch of the image, the pixels of
\* the box that are not of the region set to 0; indexed from (0, 0)
intensity_image(img, prop) ==
  [q \in (0 .. (prop.bbox[3] - prop.bbox[1] - 1))
         \X (0 .. (prop.bbox[4] - prop.bbox[2] - 1)) |->
     LET p == <<prop.bbox[1] + q[1], prop.bbox[2] + q[2]>>
     IN IF p \in prop.region THEN img[p] ELSE 0]

\* np.unique(sorted(data.ravel())), as a set
Unique(data) == {data[q] : q \in DOMAIN data}

\* infer_gaussian: (amplitude, x_0, y_0, width); the width is kept squared
infer_gaussian(data) ==
  LET amplitude == SetMax(Unique(data))
      ncols == 1 + SetMax({q[2] : q \in DOMAIN data})
      peaks == {q \in DOMAIN data : data[q] = amplitude}
      peak == CHOOSE q \in peaks :
                \A r \in peaks : q[1] * ncols + q[2] <= r[1] * ncols + r[2]
      dx == Cardinality({q \in DOMAIN data :
                           q[1] = peak[1] /\ 2 * data[q] > amplitude})
      dy == Cardinality({q \in DOMAIN data :
                           q[2] = peak[2] /\ 2 * data[q] > amplitude})
  IN [amplitude |-> amplitude, x_0 |-> peak[1], y_0 |-> peak[2],
      width_sq |-> dx * dx + dy * dy]

NoIntensityRegionException == "NoIntensityRegionException"

\* The free parameters of models.Gaussian2D: amplitude, x_mean, y_mean,
\* x_stddev, y_stddev, theta
FreeParameters == 6

\* LevMarLSQFitter runs scipy.optimize.leastsq, which raises TypeError
\* ("Improper input: N=6 must not exceed M") when the patch has fewer pixels
\* than the model has free parameters
TooFewPixels(patch) == Cardinality(DOMAIN patch) < FreeParameters

\* fit_elliplse that takes the lowest unique value as the background
\* (index 0 instead of index 1): only an empty patch would raise
fit_elliplse_lowest_unique(img, prop, fit) ==
  LET patch == intensity_image(img, prop)
      background == SetMin(Unique(patch))
      data == [q \in DOMAIN patch |->
                 IF patch[q] - background < 0 THEN 0 ELSE patch[q] - background]
  IN IF TooFewPixels(patch)
     THEN [exc |-> "TypeError", seed |-> Some(infer_gaussian(data)), gg |-> None]
     ELSE [exc |-> NoError, seed |-> Some(infer_gaussian(data)), gg |-> fit]

\* fit_elliplse(prop): lines 382-397 and the return.  np.unique(...)[1]
\* raises IndexError, turned into NoIntensityRegionException, when the patch
\* holds fewer than two distinct values; the fitter raises TypeError on a
\* patch of fewer pixels than free parameters
fit_elliplse(img, prop, fit) ==
  LET patch == intensity_image(img, prop)
  IN IF Cardinality(Unique(patch)) < 2
     THEN [exc |-> NoIntensityRegionException, seed |-> None, gg |-> None]
     ELSE LET background == SetMin(Unique(patch) \ {SetMin(Unique(patch))})
              data == [q \in DOMAIN patch |->
                         IF patch[q] - background < 0 THEN 0
                         ELSE patch[q] - background]
          IN IF TooFewPixels(patch)
             THEN [exc |-> "TypeError", seed |-> Some(infer_gaussian(data)),
                   gg |-> None]
             ELSE [exc |-> NoError, seed |-> Some(infer_gaussian(data)),
                   gg |-> fit]

\* The Gaussian2D models a fit may return
GaussFits ==
  [amplitude : {0, 1, 3}, x_mean : {1}, y_mean : {0},
   x_stddev : {-2}, y_stddev : {1}, theta : {0, 60, -60, 120}]

\* Per region, what the fitter may return for it: nothing when the fit
\* raises
FitChoices(img, props) ==
  AsList([k \in 1 .. Len(props) |->
            IF \/ Cardinality(Unique(intensity_image(img, props[k]))) < 2
               \/ TooFewPixels(intensity_image(img, props[k]))
            THEN {None} ELSE {Some(g) : g \in GaussFits}],
         Len(props))

Sign(x) == IF x > 0 THEN 1 ELSE IF x < 0 THEN -1 ELSE 0

\* np.cos(gg.theta): the double is twice / 2 plus an error of the sign
\* excess (cos(radians(60)) = 0.5000000000000001,
\* cos(radians(120)) = -0.4999999999999998)
Cos2(theta) ==
  CASE theta = 0 -> [twice |-> 2, excess |-> 0]
    [] theta \in {60, -60} -> [twice |-> 1, excess |-> 1]
    [] theta \in {120, -120} -> [twice |-> -1, excess |-> 1]
    [] theta \in {180, -180} -> [twice |-> -2, excess |-> 0]

\* abs(x_stddev * np.cos(theta)) > limit.  x_stddev is a power of two up
\* to its sign, so the product is the exact multiple of the double cosine.
CosExceeds(x_stddev, theta, limit) ==
  LET c == Cos2(theta)
      main == Abs(x_stddev * c.twice)
      excess == Sign(c.twice) * c.excess
  IN \/ main > 2 * limit
     \/ main = 2 * limit /\ x_stddev # 0 /\ excess > 0

\* np.rad2deg(gg.theta) % 180: the double is deg plus an error of the sign
\* excess (rad2deg(radians(60)) % 180 = 59.99999999999999,
\* rad2deg(radians(-60)) % 180 = 120.0,
\* rad2deg(radians(120)) % 180 = 119.99999999999999,
\* rad2deg(radians(-120)) % 180 = 60.000000000000014)
Deg180(theta) ==
  CASE theta \in {0, 180, -180} -> [deg |-> 0, excess |-> 0]
    [] theta = 60 -> [deg |-> 60, excess |-> -1]
    [] theta = -60 -> [deg |-> 120, excess |-> 0]
    [] theta = 120 -> [deg |-> 120, excess |-> -1]
    [] theta = -120 -> [deg |-> 60, excess |-> 1]

\* limit < d, limit <= d, d < limit and d <= limit for d as Deg180 gives it
DegAbove(d, limit, closed) ==
  \/ limit < d.deg
  \/ limit = d.deg /\ (d.excess > 0 \/ (closed /\ d.excess = 0))

DegBelow(d, limit, closed) ==
  \/ d.deg < limit
  \/ d.deg = limit /\ (d.excess < 0 \/ (closed /\ d.excess = 0))

\* An amplitude threshold given by the caller
GivenThreshold(amplitude) == [base |-> amplitude, eps |-> Eps(0, 1)]

\* The acceptance test with the angle limits included in the interval
AcceptsClosedInterval(gg, args, thr) ==
  /\ Abs(gg.x_stddev) > Abs(args.x_stddev)
  /\ CosExceeds(gg.x_stddev, gg.theta, args.x_cos_theta)
  /\ Abs(gg.y_stddev) * args.y_to_x_stddev[2]
       < args.y_to_x_stddev[1] * Abs(gg.x_stddev)
  /\ AboveThreshold(gg.amplitude, thr)
  /\ DegAbove(Deg180(gg.theta), args.theta_lims[1], TRUE)
  /\ DegBelow(Deg180(gg.theta), args.theta_lims[2], TRUE)

\* The acceptance test of search_candidates_ell, lines 207-211.
\* y_to_x_stddev is the fraction y_to_x_stddev[1] / y_to_x_stddev[2].
Accepts(gg, args, thr) ==
  /\ Abs(gg.x_stddev) > Abs(args.x_stddev)
  /\ CosExceeds(gg.x_stddev, gg.theta, args.x_cos_theta)
  /\ Abs(gg.y_stddev) * args.y_to_x_stddev[2]
       < args.y_to_x_stddev[1] * Abs(gg.x_stddev)
  /\ AboveThreshold(gg.amplitude, thr)
  /\ DegAbove(Deg180(gg.theta), args.theta_lims[1], FALSE)
  /\ DegBelow(Deg180(gg.theta), args.theta_lims[2], FALSE)

\* The result of a call before anything has happened
EllOut ==
  [exc |-> NoError, estimator_called |-> FALSE, amplitudes |-> <<>>,
   threshold |-> None, skipped_first |-> {}, skipped |-> {}, fitted |-> {},
   accepted |-> <<>>, candidates |-> <<>>, features |-> <<>>,
   seed |-> None, gg |-> None, estimate |-> Raised(NoError)]

Indices(n) == AsList([k \in 1 .. n |-> k], n)

\* max_pos = (gg.x_mean + prop.bbox[0], gg.y_mean + prop.bbox[1])
FittedPosition(gg, prop) == <<gg.x_mean + prop.bbox[1], gg.y_mean + prop.bbox[2]>>

\* The exception, if any, of the fits of the regions in ks
FirstError(res, ks) ==
  IF \E i \in 1 .. Len(ks) : res[ks[i]].exc # NoError
  THEN res[ks[CHOOSE i \in 1 .. Len(ks) :
                /\ res[ks[i]].exc # NoError
                /\ \A j \in 1 .. (i - 1) : res[ks[j]].exc = NoError]].exc
  ELSE NoError

\* The first exception of the fits of the regions in ks that the loops do
\* not catch: every exception but NoIntensityRegionException
FirstUncaught(res, ks) ==
  LET bad == {i \in 1 .. Len(ks) :
                res[ks[i]].exc \notin {NoError, NoIntensityRegionException}}
  IN IF bad = {} THEN NoError ELSE res[ks[SetMin(bad)]].exc

\* search_candidates_ell.  props is regionprops of the labelled image (lines
\* 163-168), fits[k] what the fitter returns for region k, tail the Rayleigh
\* tail bound the estimator computes.
search_candidates_ell(img, props, fits, args, tail) ==
  LET n == Len(props)
      res == AsList([k \in 1 .. n |-> fit_elliplse(img, props[k], fits[k])], n)
      ok == {k \in 1 .. n : res[k].exc = NoError}
      \* lines 170-179: the amplitude-collection pass
      collected == SelectSeq(Indices(n),
                             LAMBDA k : k \in ok /\ res[k].gg[1].amplitude # 0)
      amplitudes == AsList([i \in 1 .. Len(collected) |->
                              res[collected[i]].gg[1].amplitude], Len(collected))
      est == find_clusters_ell_amplitudes(amplitudes, DefaultMinSamples, None, tail)
      uncaught == FirstUncaught(res, Indices(n))
  IN IF args.amplitude = None /\ uncaught # NoError
     THEN \* lines 172-178: the fit of a region raises what the loop does
          \* not catch
          [EllOut EXCEPT !.exc = uncaught]
     ELSE IF args.amplitude = None /\ est.exc # NoError
     THEN [EllOut EXCEPT !.exc = est.exc, !.estimator_called = TRUE,
                         !.amplitudes = amplitudes, !.estimate = est,
                         !.skipped_first = (1 .. n) \ ok]
     ELSE IF args.amplitude # None
     THEN \* line 185: ``amplitudes`` is assigned only at line 171
          [EllOut EXCEPT !.exc = "UnboundLocalError",
                         !.threshold = Some(GivenThreshold(args.amplitude[1]))]
     ELSE LET thr == est.threshold[1]
              \* lines 202-222: the classification pass
              accepted == SelectSeq(Indices(n),
                                    LAMBDA k : k \in ok /\ Accepts(res[k].gg[1], args, thr))
              \* line 212: the accepted region is fitted once more
              refit == AsList([k \in 1 .. n |->
                                 fit_elliplse(img, props[k], fits[k])], n)
          IN [EllOut EXCEPT
                !.exc = FirstError(refit, accepted),
                !.estimator_called = TRUE,
                !.amplitudes = amplitudes,
                !.estimate = est,
                !.threshold = Some(thr),
                !.skipped_first = (1 .. n) \ ok,
                !.skipped = (1 .. n) \ ok,
                !.fitted = ok,
                !.accepted = IF FirstError(refit, accepted) = NoError
                             THEN accepted ELSE <<>>,
                !.candidates =
                   IF FirstError(refit, accepted) = NoError
                   THEN AsList([i \in 1 .. Len(accepted) |->
                                  Candidate(FittedPosition(refit[accepted[i]].gg[1],
                                                           props[accepted[i]]),
                                            args.t_0, args.d_t, args.d_dm)],
                               Len(accepted))
                   ELSE <<>>]

\* search_candidates_clf.  responses[k] is the classifier's answer for
\* region k and order the order in which out_responses_dict yields the
\* regions.
search_candidates_clf(img, props, fits, responses, order, args) ==
  LET n == Len(props)
      positive_props == SelectSeq(order, LAMBDA k : responses[k])
      res == AsList([k \in 1 .. n |-> fit_elliplse(img, props[k], fits[k])], n)
      kept == SelectSeq(positive_props, LAMBDA k : res[k].exc = NoError)
      uncaught == FirstUncaught(res, positive_props)
  IN IF uncaught # NoError THEN [EllOut EXCEPT !.exc = uncaught]
     ELSE
     [EllOut EXCEPT
        !.skipped = {k \in 1 .. n : responses[k] /\ res[k].exc # NoError},
        !.fitted = {k \in 1 .. n : responses[k] /\ res[k].exc = NoError},
        !.accepted = kept,
        !.candidates =
           AsList([i \in 1 .. Len(kept) |->
                     Candidate(FittedPosition(res[kept[i]].gg[1], props[kept[i]]),
                               args.t_0, args.d_t, args.d_dm)],
                  Len(kept))]

\* get_ellipse_features_for_classification without the try/except around
\* the fit: the first exception of a fit leaves the function
get_ellipse_features_unguarded(img, props, fits) ==
  LET n == Len(props)
      res == AsList([k \in 1 .. n |-> fit_elliplse(img, props[k], fits[k])], n)
  IN [EllOut EXCEPT !.exc = FirstError(res, Indices(n))]

\* get_ellipse_features_for_classification: the features that come from the
\* region and its fit, one entry per fitted region
get_ellipse_features_for_classification(img, props, fits) ==
  LET n == Len(props)
      res == AsList([k \in 1 .. n |-> fit_elliplse(img, props[k], fits[k])], n)
      kept == SelectSeq(Indices(n), LAMBDA k : res[k].exc = NoError)
      uncaught == FirstUncaught(res, Indices(n))
  IN IF uncaught # NoError THEN [EllOut EXCEPT !.exc = uncaught]
     ELSE
     [EllOut EXCEPT
        !.skipped = {k \in 1 .. n : res[k].exc # NoError},
        !.fitted = {k \in 1 .. n : res[k].exc = NoError},
        !.features =
           AsList([i \in 1 .. Len(kept) |->
                     [prop |-> kept[i],
                      area |-> props[kept[i]].area,
                      amplitude |-> res[kept[i]].gg[1].amplitude,
                      x_stddev |-> Abs(res[kept[i]].gg[1].x_stddev),
                      y_stddev |-> Abs(res[kept[i]].gg[1].y_stddev),
                      theta |-> Abs(res[kept[i]].gg[1].theta)]],
                  Len(kept))]

----------------------------------------------------------------------------
(* create_ellipses: the preprocessing of the t-DM plane.  The arrays are   *)
(* ImgH x PreW grids of exact numbers: a pixel holds its value multiplied by *)
(* PreScale, so that every np.mean(tdm_image) written back into the array    *)
(* is an integer.  ImgH * PreW is a power of two: np.mean(tdm_image) then    *)
(* divides by a power of two, every value of the array is a dyadic fraction  *)
(* of a few bits, and the doubles of the program hold the exact sums these   *)
(* operators compute, so that the comparison image < threshold comes out as  *)
(* it does in the program.                                                   *)
PreCols == 0 .. (PreW - 1)
PrePixels == Rows \X PreCols
PreN == ImgH * PreW

\* No more regions than this fit in the grid, so no more in-place fills per call
MaxRegions == ((ImgH + 1) \div 2) * ((PreW + 1) \div 2)

RECURSIVE Power(_, _)
Power(b, n) == IF n = 0 THEN 1 ELSE b * Power(b, n - 1)

\* Two calls divide by PreN at most 2 * MaxRegions times
PreScale == Power(PreN, 2 * MaxRegions)

\* The array with the value f[p] at every pixel p of S, each computed once
RECURSIVE Array(_, _)
Array(f, S) ==
  LET x == CHOOSE y \in S : TRUE
  IN IF S = {x} THEN x :> f[x] ELSE (x :> f[x]) @@ Array(f, S \ {x})

RECURSIVE SumOver(_, _)
SumOver(f, S) ==
  IF S = {} THEN 0
  ELSE LET x == CHOOSE y \in S : TRUE IN f[x] + SumOver(f, S \ {x})

\* skimage.morphology.disk(radius), as offsets from the centre
disk(radius) ==
  {d \in (-radius .. radius) \X (-radius .. radius) :
     d[1] * d[1] + d[2] * d[2] <= radius * radius}

\* scipy.ndimage boundary mode 'reflect' (d c b a | a b c d | d c b a)
Reflect(i, n) == IF i < 0 THEN -i - 1 ELSE IF i >= n THEN 2 * n - 1 - i ELSE i

Shifted(p, d) == <<Reflect(p[1] + d[1], ImgH), Reflect(p[2] + d[2], PreW)>>

\* The element of rank k (from 0) among the values f[x], x in S
OrderStatistic(f, S, k) ==
  CHOOSE v \in {f[x] : x \in S} :
    /\ Cardinality({x \in S : f[x] < v}) <= k
    /\ Cardinality({x \in S : f[x] <= v}) >= k + 1

\* circular_mean: generic_filter(data, np.mean, footprint=disk(radius)).
\* The result is kept multiplied by the size of the footprint.
circular_mean(data, radius) ==
  Array([p \in PrePixels |->
           SumOver([d \in disk(radius) |-> data[Shifted(p, d)]], disk(radius))],
        PrePixels)

\* circular_median: generic_filter(data, np.median, footprint=disk(radius));
\* the footprint of a disk has an odd number of pixels
circular_median(data, radius) ==
  Array([p \in PrePixels |->
           OrderStatistic([d \in disk(radius) |-> data[Shifted(p, d)]],
                          disk(radius), (Cardinality(disk(radius)) - 1) \div 2)],
        PrePixels)

\* statistic_dict[statistic](data, disk_size), for 'mean' and 'median'.
\* The key 'gauss' (gaussian_filter, whose weights are not rational) has no
\* arm: the operator is not defined for it and no call of the model uses it.
statistic_dict(statistic, data, disk_size) ==
  CASE statistic = "mean" -> circular_mean(data, disk_size)
    [] statistic = "median" -> circular_median(data, disk_size)

\* 100 * np.percentile(img.ravel(), q), linear interpolation between the two
\* nearest ranks
percentile(img, q) ==
  LET pos == q * (PreN - 1)
      lo == OrderStatistic(img, PrePixels, pos \div 100)
      hi == IF pos % 100 = 0 THEN lo
            ELSE OrderStatistic(img, PrePixels, (pos \div 100) + 1)
  IN 100 * lo + (pos % 100) * (hi - lo)

\* image[image < threshold] = 0, the threshold given multiplied by 100
ZeroBelow(img, threshold) ==
  Array([p \in PrePixels |-> IF 100 * img[p] < threshold THEN 0 ELSE img[p]],
        PrePixels)

\* The offsets of the structuring element np.ones((k, k)), k odd
selem(k) == (-(k \div 2) .. (k \div 2)) \X (-(k \div 2) .. (k \div 2))

erosion(img, k) ==
  Array([p \in PrePixels |-> SetMin({img[Shifted(p, d)] : d \in selem(k)})],
        PrePixels)

dilation(img, k) ==
  Array([p \in PrePixels |-> SetMax({img[Shifted(p, d)] : d \in selem(k)})],
        PrePixels)

\* skimage.morphology.opening(image, np.ones((k, k)))
opening(img, k) == dilation(erosion(img, k), k)

\* One filtering pass: statistic, percentile threshold, opening
FilterPass(tdm, args, perc) ==
  LET filtered == statistic_dict(args.statistic, tdm, args.disk_size)
      threshold == percentile(filtered, perc)
  IN opening(ZeroBelow(filtered, threshold), args.opening_selem)

InBox(p, bb) == bb[1] <= p[1] /\ p[1] < bb[3] /\ bb[2] <= p[2] /\ p[2] < bb[4]

\* np.mean(tdm_image)
Mean(tdm) == SumOver(tdm, PrePixels) \div PreN

\* Lines 355-358: tdm_image[bb[0]:bb[2], bb[1]:bb[3]] = np.mean(tdm_image) for
\* the regions boxes[i], boxes[i + 1], ..., one after the other
RECURSIVE FilterOut(_, _, _)
FilterOut(tdm, boxes, i) ==
  IF i > Len(boxes) THEN tdm
  ELSE LET mean == Mean(tdm)
       IN FilterOut(Array([p \in PrePixels |->
                             IF InBox(p, boxes[i]) THEN mean ELSE tdm[p]],
                          PrePixels),
                    boxes, i + 1)

\* The keys of statistic_dict, lines 331-332: any other key is a KeyError
KnownStatistic(statistic) == statistic \in {"mean", "median", "gauss"}

\* create_ellipses with the lookup of the statistic made after an in-place
\* write: an unknown key raises once the array holds its mean everywhere
create_ellipses_late_lookup(tdm_image, args) ==
  IF ~KnownStatistic(args.statistic)
  THEN \* statistic_dict[statistic] at line 336, or at line 360 when
       \* threshold_big_perc is None
       [exc |-> "KeyError",
        tdm_image |-> LET mean == Mean(tdm_image)
                      IN Array([p \in PrePixels |-> mean], PrePixels),
        image |-> [p \in PrePixels |-> 0]]
  ELSE
  LET props == regionprops(FilterPass(tdm_image, args, args.threshold_big_perc[1]))
      big_sized_props == SelectSeq(props, LAMBDA prop : prop.area > args.max_prop_size)
      boxes == AsList([i \in 1 .. Len(big_sized_props) |-> big_sized_props[i].bbox],
                      Len(big_sized_props))
      cleaned == IF args.threshold_big_perc = None THEN tdm_image
                 ELSE FilterOut(tdm_image, boxes, 1)
      threshold_perc == IF args.threshold_perc = None THEN args.threshold_big_perc
                        ELSE args.threshold_perc
  IN [exc |-> NoError, tdm_image |-> cleaned,
      image |-> FilterPass(cleaned, args, threshold_perc[1])]

\* create_ellipses(tdm_image, ...): the exception raised if any, the returned
\* image and what the call leaves in the caller's array
create_ellipses(tdm_image, args) ==
  IF ~KnownStatistic(args.statistic)
  THEN \* statistic_dict[statistic] at line 336, or at line 360 when
       \* threshold_big_perc is None
       [exc |-> "KeyError", tdm_image |-> tdm_image,
        image |-> [p \in PrePixels |-> 0]]
  ELSE
  LET props == regionprops(FilterPass(tdm_image, args, args.threshold_big_perc[1]))
      big_sized_props == SelectSeq(props, LAMBDA prop : prop.area > args.max_prop_size)
      boxes == AsList([i \in 1 .. Len(big_sized_props) |-> big_sized_props[i].bbox],
                      Len(big_sized_props))
      cleaned == IF args.threshold_big_perc = None THEN tdm_image
                 ELSE FilterOut(tdm_image, boxes, 1)
      threshold_perc == IF args.threshold_perc = None THEN args.threshold_big_perc
                        ELSE args.threshold_perc
  IN [exc |-> NoError, tdm_image |-> cleaned,
      image |-> FilterPass(cleaned, args, threshold_perc[1])]

----------------------------------------------------------------------------
(* The calls: arguments, initial states and actions *)

\* The images with at most n non-zero pixels
ImagesUpTo(n) ==
  UNION {{[p \in Pixels |-> IF p \in S THEN v[p] ELSE 0] : v \in [S -> 1 .. MaxVal]}
         : S \in {T \in SUBSET Pixels : Cardinality(T) <= n}}

\* The images with more than MaxPix and at most n non-zero pixels, all at
\* level 1: the shapes of regions that differ in height, width and area
ShapesUpTo(n) ==
  {[p \in Pixels |-> IF p \in S THEN 1 ELSE 0] :
     S \in {T \in SUBSET Pixels : MaxPix < Cardinality(T) /\ Cardinality(T) <= n}}

\* The images search_candidates is called on
Images == ImagesUpTo(MaxPix) \cup ShapesUpTo(ShapePix)

EllPixels == Rows \X (0 .. (EllW - 1))

\* Three pixels in the columns c, c + 1 and c + 2, the middle one in the
\* other row: a region whose 2 x 3 patch has as many pixels as the fitted
\* model has free parameters
Chevron(r, c) == {<<r, c>>, <<1 - r, c + 1>>, <<r, c + 2>>}

\* The six pixels of the columns c to c + 2: a region whose patch holds
\* exactly two levels and is large enough to be fitted
Block(c) == Rows \X (c .. (c + 2))

\* The images the ellipse functions are called on: those of at most EllPix
\* non-zero pixels, those of two three-pixel regions, those of a single
\* pixel followed by two three-pixel regions, and those of a six-pixel block
\* alone or followed by a three-pixel region; the non-zero pixels of row r
\* are at level r + 1
EllImages ==
  {[p \in EllPixels |-> IF p \in S THEN p[1] + 1 ELSE 0] :
     S \in {T \in SUBSET EllPixels : Cardinality(T) <= EllPix}
            \cup {Chevron(r, 0) \cup Chevron(q, 4) : r \in 0 .. 1, q \in 0 .. 1}
            \cup {{<<r, 0>>} \cup Chevron(0, 2) \cup Chevron(1, 6) : r \in 0 .. 1}
            \cup {Block(0)}
            \cup {Block(0) \cup Chevron(r, 4) : r \in 0 .. 1}}

NoArgs == [n_d_x |-> 0, n_d_y |-> 0, t_0 |-> 0, d_t |-> 1, d_dm |-> 1]

\* The arguments of search_candidates_ell: one reference call and the calls
\* that differ from it in one argument
BaseArgs ==
  [x_stddev |-> 1, x_cos_theta |-> 0, y_to_x_stddev |-> <<1, 1>>,
   theta_lims |-> <<0, 180>>, amplitude |-> None,
   t_0 |-> 0, d_t |-> 1, d_dm |-> 1]

ArgChoices ==
  [x_stddev : {1, -2}, x_cos_theta : {0, 1},
   y_to_x_stddev : {<<1, 1>>, <<1, 2>>},
   theta_lims : {<<0, 180>>, <<60, 180>>, <<0, 120>>},
   amplitude : {None, Some(2)},
   t_0 : T0Values, d_t : StepValues, d_dm : StepValues]

EllArgs ==
  {a \in ArgChoices :
     Cardinality({f \in DOMAIN BaseArgs : a[f] # BaseArgs[f]}) <= 1}

\* search_candidates_clf takes t_0, d_t and d_dm only
ClfArgs ==
  {a \in EllArgs : \A f \in DOMAIN BaseArgs \ {"t_0", "d_t", "d_dm"} :
                     a[f] = BaseArgs[f]}

\* The tail bounds that tell the fitted amplitudes apart
EllTailValues == 0 .. SetMax({g.amplitude : g \in GaussFits})

\* All orders of the elements of S
RECURSIVE Perms(_)
Perms(S) ==
  IF S = {} THEN {<<>>}
  ELSE UNION {{<<x>> \o rest : rest \in Perms(S \ {x})} : x \in S}

NoCall == [fn |-> "none", args |-> BaseArgs, prop |-> 0, responses |-> <<>>,
           order |-> <<>>]

ClusterIdle ==
  /\ c_pc = "idle"
  /\ c_args = [amplitudes |-> <<>>, min_samples |-> DefaultMinSamples, eps |-> None]
  /\ c_out = Raised(NoError)

SearchIdle ==
  /\ s_pc = "idle"
  /\ s_args = NoArgs
  /\ s_objects = <<>>
  /\ s_candidates = <<>>

EllIdle ==
  /\ e_pc = "idle"
  /\ e_call = NoCall
  /\ e_fits = <<>>
  /\ e_out = EllOut

\* The percentiles the calls are made with
PercValues == {50, 80}

\* The keyword arguments of create_ellipses
PreArgs ==
  {a \in [statistic : {"mean", "median", "max"}, disk_size : {0, 1},
          opening_selem : {1, 3}, max_prop_size : {1, 2},
          threshold_big_perc : {None} \cup {Some(q) : q \in PercValues},
          threshold_perc : {None} \cup {Some(q) : q \in PercValues}] :
     (a.threshold_big_perc = None) # (a.threshold_perc = None)}

ZeroArray == [p \in PrePixels |-> 0]

\* The arrays create_ellipses is called on
PreImages ==
  {[p \in PrePixels |-> v[p] * PreScale] :
     v \in {w \in [PrePixels -> 0 .. MaxVal] :
              Cardinality({p \in PrePixels : w[p] # 0}) <= PrePix}}

PreIdle ==
  /\ p_pc = "idle"
  /\ p_args = [statistic |-> "mean", disk_size |-> 0, opening_selem |-> 1,
               max_prop_size |-> 1, threshold_big_perc |-> None,
               threshold_perc |-> None]
  /\ p_tdm = ZeroArray
  /\ p_before = ZeroArray
  /\ p_first = ZeroArray
  /\ p_second = ZeroArray

NoImage == image = [p \in Pixels |-> 0]

AmplitudeLists == UNION {[1 .. n -> 1 .. MaxAmp] : n \in 0 .. MaxN}

FindClustersCall ==
  /\ c_pc = "call"
  /\ \E tail \in TailValues :
       LET r == find_clusters_ell_amplitudes(c_args.amplitudes,
                                             c_args.min_samples, c_args.eps, tail)
       IN /\ c_out' = r
          /\ c_pc' = IF r.exc = NoError THEN "returned" ELSE "raised"
  /\ UNCHANGED c_args
  /\ UNCHANGED searchVars
  /\ UNCHANGED ellVars
  /\ UNCHANGED preVars

ClusterInit ==
  /\ c_pc = "call"
  /\ \E a \in AmplitudeLists,
        ms \in {SmallMinSamples, DefaultMinSamples},
        e \in {None} \cup {Some(x) : x \in 1 .. MaxEps} :
       c_args = [amplitudes |-> a, min_samples |-> ms, eps |-> e]
  /\ c_out = Raised(NoError)
  /\ NoImage
  /\ SearchIdle
  /\ EllIdle
  /\ PreIdle

ClusterNext == FindClustersCall

SpecClusters == ClusterInit /\ [][ClusterNext]_vars

search_candidates ==
  /\ s_pc = "call"
  /\ LET objs == RegionObjects(image)
     IN \E n_d_x \in ThrValues, n_d_y \in ThrValues :
       LET kept == Classify(objs, n_d_x, n_d_y)
       IN IF kept = <<>>
          THEN \* line 145: maximum_position returns [] for an empty index,
               \* which cannot be stored in the (0, 2) field 'max_pos'
               /\ \E t_0 \in T0Values, d_t \in StepValues, d_dm \in StepValues :
                    s_args' = [n_d_x |-> n_d_x, n_d_y |-> n_d_y, t_0 |-> t_0,
                               d_t |-> d_t, d_dm |-> d_dm]
               /\ s_pc' = "raised"
               /\ s_objects' = <<>>
               /\ s_candidates' = <<>>
          ELSE \E mp \in SeqProduct([k \in 1 .. Len(kept) |->
                                       MaxPositions(image, kept[k].region)]) :
                 LET withpos == AsList([k \in 1 .. Len(kept) |->
                                   [label |-> kept[k].label, dx |-> kept[k].dx,
                                    dy |-> kept[k].dy, max_pos |-> mp[k]]],
                                   Len(kept))
                     sorted == lexsort_reversed(withpos)
                 IN \E t_0 \in T0Values, d_t \in StepValues, d_dm \in StepValues :
                      /\ s_args' = [n_d_x |-> n_d_x, n_d_y |-> n_d_y, t_0 |-> t_0,
                                    d_t |-> d_t, d_dm |-> d_dm]
                      /\ s_pc' = "returned"
                      /\ s_objects' = sorted
                      /\ s_candidates' =
                           [k \in 1 .. Len(sorted) |->
                              Candidate(sorted[k].max_pos, t_0, d_t, d_dm)]
  /\ UNCHANGED image
  /\ UNCHANGED clusterVars
  /\ UNCHANGED ellVars
  /\ UNCHANGED preVars

SearchInit ==
  /\ image \in Images
  /\ s_pc = "call"
  /\ s_args = NoArgs
  /\ s_objects = <<>>
  /\ s_candidates = <<>>
  /\ ClusterIdle
  /\ EllIdle
  /\ PreIdle

SearchNext == search_candidates

SpecSearch == SearchInit /\ [][SearchNext]_vars

Finish(out) ==
  /\ e_out' = out
  /\ e_pc' = IF out.exc = NoError THEN "returned" ELSE "raised"

FitCall ==
  /\ e_pc = "call"
  /\ LET props == regionprops(image)
     IN \E k \in 1 .. Len(props) :
          \E fit \in FitChoices(image, props)[k] :
            LET r == fit_elliplse(image, props[k], fit)
            IN /\ e_call' = [NoCall EXCEPT !.fn = "fit_elliplse", !.prop = k]
               /\ e_fits' = <<fit>>
               /\ Finish([EllOut EXCEPT !.exc = r.exc, !.seed = r.seed,
                                        !.gg = r.gg])
  /\ UNCHANGED <<image, searchVars, clusterVars, preVars>>

SearchCandidatesEll ==
  /\ e_pc = "call"
  /\ LET props == regionprops(image)
         choices == SeqProduct(FitChoices(image, props))
     IN \E fits \in choices :
          \E args \in EllArgs, tail \in EllTailValues :
            /\ e_call' = [NoCall EXCEPT !.fn = "search_candidates_ell",
                                        !.args = args]
            /\ e_fits' = fits
            /\ Finish(search_candidates_ell(image, props, fits, args, tail))
  /\ UNCHANGED <<image, searchVars, clusterVars, preVars>>

SearchCandidatesClf ==
  /\ e_pc = "call"
  /\ LET props == regionprops(image)
         n == Len(props)
         choices == SeqProduct(FitChoices(image, props))
         orders == Perms(1 .. n)
     IN \E fits \in choices :
          \E responses \in [1 .. n -> BOOLEAN], order \in orders,
             args \in ClfArgs :
            /\ e_call' = [NoCall EXCEPT !.fn = "search_candidates_clf",
                                        !.args = args,
                                        !.responses = AsList(responses, n),
                                        !.order = order]
            /\ e_fits' = fits
            /\ Finish(search_candidates_clf(image, props, fits, responses,
                                            order, args))
  /\ UNCHANGED <<image, searchVars, clusterVars, preVars>>

GetEllipseFeatures ==
  /\ e_pc = "call"
  /\ LET props == regionprops(image)
         choices == SeqProduct(FitChoices(image, props))
     IN \E fits \in choices :
          /\ e_call' = [NoCall EXCEPT
                          !.fn = "get_ellipse_features_for_classification"]
          /\ e_fits' = fits
          /\ Finish(get_ellipse_features_for_classification(image, props, fits))
  /\ UNCHANGED <<image, searchVars, clusterVars, preVars>>

EllInit ==
  /\ image \in EllImages
  /\ e_pc = "call"
  /\ e_call = NoCall
  /\ e_fits = <<>>
  /\ e_out = EllOut
  /\ SearchIdle
  /\ ClusterIdle
  /\ PreIdle

EllNext ==
  \/ FitCall
  \/ SearchCandidatesEll
  \/ SearchCandidatesClf
  \/ GetEllipseFeatures

SpecEll == EllInit /\ [][EllNext]_vars

\* A call create_ellipses(tdm_image, **kwargs) on the caller's array: the
\* first call, then a second one with the same arguments on the same array
CreateEllipses ==
  /\ p_pc \in {"start", "once"}
  /\ LET r == create_ellipses(p_tdm, p_args)
     IN /\ p_tdm' = r.tdm_image
        /\ p_before' = p_tdm
        /\ IF r.exc # NoError
           THEN p_first' = p_first /\ p_second' = p_second /\ p_pc' = "raised"
           ELSE IF p_pc = "start"
           THEN p_first' = r.image /\ p_second' = p_second /\ p_pc' = "once"
           ELSE p_second' = r.image /\ p_first' = p_first /\ p_pc' = "twice"
  /\ UNCHANGED <<p_args, image, searchVars, clusterVars, ellVars>>

PreInit ==
  /\ p_pc = "start"
  /\ p_args \in PreArgs
  /\ p_tdm \in PreImages
  /\ p_before = p_tdm
  /\ p_first = ZeroArray
  /\ p_second = ZeroArray
  /\ NoImage
  /\ SearchIdle
  /\ ClusterIdle
  /\ EllIdle

PreNext == CreateEllipses

SpecPre == PreInit /\ [][PreNext]_vars

\* The three search strategies and the threshold estimator, each called on
\* its own
PipelineInit == SearchInit \/ ClusterInit \/ EllInit

PipelineNext == SearchNext \/ ClusterNext \/ EllNext

SpecPipeline == PipelineInit /\ [][PipelineNext]_vars

----------------------------------------------------------------------------
(* Properties of find_clusters_ell_amplitudes *)

ClusterLabels == {c_out.labels[j] : j \in 1 .. Len(c_out.labels)}

\* The amplitudes labelled outlier that exceed the tail bound
ConfirmedOutliers ==
  {c_args.amplitudes[j] : j \in {k \in 1 .. Len(c_out.labels) :
       c_out.labels[k] = -1 /\ c_args.amplitudes[k] > c_out.tail[1]}}

\* C8: the population fitted with the Rayleigh distribution is the largest
\* of the clusters with a label other than -1; the outlier set is never the
\* fitted population when a real cluster exists.
C8_PopulationIsLargestRealCluster ==
  (c_pc # "call" /\ c_out.population # None /\ ClusterLabels # {-1}) =>
    /\ c_out.population[1] # -1
    /\ \A l \in ClusterLabels \ {-1} :
         Count(c_out.labels, c_out.population[1]) >= Count(c_out.labels, l)

\* C9: when an outlier-labelled amplitude exceeds the tail bound the call
\* returns min{a : label(a) = -1 and a > tail bound} - eps, eps being the
\* caller's value or (max - min) / sqrt(len(amplitudes)); with eps > 0 the
\* returned threshold is strictly below every such amplitude.
C9_ThresholdIsMinOutlierMinusEps ==
  (c_pc # "call" /\ c_out.tail # None) =>
    /\ (ConfirmedOutliers # {}) <=> (c_pc = "returned")
    /\ c_pc = "returned" =>
         LET thr == c_out.threshold[1]
             vals == {c_args.amplitudes[j] : j \in 1 .. Len(c_args.amplitudes)}
         IN /\ thr.base = SetMin(ConfirmedOutliers)
            /\ thr.eps = IF c_args.eps = None
                          THEN Eps(SetMax(vals) - SetMin(vals), Len(c_args.amplitudes))
                          ELSE Eps(c_args.eps[1], 1)
            /\ thr.eps.num > 0
            /\ \A a \in ConfirmedOutliers : AboveThreshold(a, thr)
            /\ \A a \in ConfirmedOutliers : ~BelowThreshold(a, thr)

\* A call with the default eps fits a real cluster and returns a threshold
\* under an outlier that lies above the tail bound
C9_Witness ==
  /\ c_pc = "returned"
  /\ c_args.eps = None
  /\ c_out.population # Some(-1)
  /\ c_out.threshold[1].base > c_out.tail[1]
  /\ Cardinality(ClusterLabels) > 1

----------------------------------------------------------------------------
(* Properties of search_candidates *)

Height(C) == bbox(C)[3] - bbox(C)[1]
Width(C) == bbox(C)[4] - bbox(C)[2]

\* The regions of the image whose bounding box exceeds both thresholds
PassingRegions ==
  {C \in Components(image) : Height(C) > s_args.n_d_y /\ Width(C) > s_args.n_d_x}

\* The region a returned object was measured on
RegionAt(pos) == CHOOSE C \in Components(image) : pos \in C

\* C1: for every image and every pair of thresholds search_candidates returns
\* a list holding exactly one candidate per region whose bounding-box height
\* is > n_d_y and whose width is > n_d_x.
C1_CountEqualsPassingRegions ==
  s_pc # "call" =>
    /\ s_pc = "returned"
    /\ Len(s_candidates) = Cardinality(PassingRegions)
    /\ \A C \in Components(image) :
         (C \in PassingRegions) <=>
           (\E k \in 1 .. Len(s_objects) : s_objects[k].max_pos \in C)

\* C6: the returned candidates are ordered descending by bounding-box height
\* and, among equal heights, descending by bounding-box width, the k-th
\* candidate being the one built from the k-th region of that order.
C6_OrderedByHeightThenWidth ==
  s_pc = "returned" =>
    /\ Len(s_candidates) = Len(s_objects)
    /\ \A k \in 1 .. Len(s_objects) :
         /\ s_objects[k].dy = Height(RegionAt(s_objects[k].max_pos))
         /\ s_objects[k].dx = Width(RegionAt(s_objects[k].max_pos))
         /\ s_candidates[k] =
              Candidate(s_objects[k].max_pos, s_args.t_0, s_args.d_t, s_args.d_dm)
    /\ \A i, j \in 1 .. Len(s_objects) :
         i < j =>
           \/ s_objects[i].dy > s_objects[j].dy
           \/ /\ s_objects[i].dy = s_objects[j].dy
              /\ s_objects[i].dx >= s_objects[j].dx

\* A taller, narrower region of smaller area and a shorter, wider one both
\* pass; the taller one, labelled second, is returned first
C6_Witness ==
  /\ s_pc = "returned"
  /\ \E i \in 1 .. Len(s_objects), j \in 1 .. Len(s_objects) :
       /\ i < j
       /\ s_objects[i].dy > s_objects[j].dy
       /\ s_objects[i].dx < s_objects[j].dx
       /\ Cardinality(RegionAt(s_objects[i].max_pos))
            < Cardinality(RegionAt(s_objects[j].max_pos))
       /\ s_objects[i].label > s_objects[j].label

----------------------------------------------------------------------------
(* Properties of fit_elliplse and of the functions that fit every region *)

EntryPoints ==
  {"search_candidates_ell", "search_candidates_clf",
   "get_ellipse_features_for_classification"}

Finished(fn) == e_pc # "call" /\ e_call.fn = fn

\* The regions of the image whose fit raises NoIntensityRegionException
RaisingRegions ==
  LET props == regionprops(image)
  IN {k \in 1 .. Len(props) :
        fit_elliplse(image, props[k], e_fits[k]).exc = NoIntensityRegionException}

\* The regions the finished call had to fit
ConsideredRegions ==
  IF e_call.fn = "search_candidates_clf"
  THEN {k \in 1 .. Len(e_fits) : e_call.responses[k]}
  ELSE 1 .. Len(e_fits)

SeqRange(s) == {s[i] : i \in 1 .. Len(s)}

\* The patch of the region of the finished fit_elliplse call
FittedPatch == intensity_image(image, regionprops(image)[e_call.prop])

\* The patch holds no positive value once its second-smallest unique value is
\* subtracted and the negatives are clipped (a patch of one level has no
\* second-smallest value and holds nothing above the background either)
NoPositiveAfterSubtraction(patch) ==
  \/ Cardinality(Unique(patch)) < 2
  \/ LET second == SetMin(Unique(patch) \ {SetMin(Unique(patch))})
     IN \A q \in DOMAIN patch : patch[q] - second <= 0

\* The five acceptance conditions, the angle interval closed or open
FiveConditions(gg, a, thr, closed) ==
  /\ Abs(gg.x_stddev) > a.x_stddev
  /\ CosExceeds(gg.x_stddev, gg.theta, a.x_cos_theta)
  /\ Abs(gg.y_stddev) * a.y_to_x_stddev[2] < a.y_to_x_stddev[1] * Abs(gg.x_stddev)
  /\ AboveThreshold(gg.amplitude, thr)
  /\ DegAbove(Deg180(gg.theta), a.theta_lims[1], closed)
  /\ DegBelow(Deg180(gg.theta), a.theta_lims[2], closed)

\* The five conditions with the minimal x_stddev taken in absolute value and
\* the angle strictly inside the interval
FiveConditionsAmended(gg, a, thr) ==
  /\ Abs(gg.x_stddev) > Abs(a.x_stddev)
  /\ CosExceeds(gg.x_stddev, gg.theta, a.x_cos_theta)
  /\ Abs(gg.y_stddev) * a.y_to_x_stddev[2] < a.y_to_x_stddev[1] * Abs(gg.x_stddev)
  /\ AboveThreshold(gg.amplitude, thr)
  /\ DegAbove(Deg180(gg.theta), a.theta_lims[1], FALSE)
  /\ DegBelow(Deg180(gg.theta), a.theta_lims[2], FALSE)

\* The successfully fitted regions of the finished call, in label order
FittedRegions ==
  LET raising == RaisingRegions
  IN SelectSeq(Indices(Len(e_fits)), LAMBDA k : k \notin raising)

\* C2: search_candidates_ell called with an amplitude threshold does not call
\* the estimator, returns, and returns the candidates of exactly the regions
\* that pass the acceptance conditions against the supplied threshold.
C2_SuppliedAmplitudeRunsToCompletion ==
  (Finished("search_candidates_ell") /\ e_call.args.amplitude # None) =>
    /\ e_pc = "returned"
    /\ ~e_out.estimator_called
    /\ e_out.accepted =
         SelectSeq(FittedRegions,
                   LAMBDA k : Accepts(e_fits[k][1], e_call.args,
                                      GivenThreshold(e_call.args.amplitude[1])))
    /\ Len(e_out.candidates) = Len(e_out.accepted)

\* C3: fit_elliplse raises NoIntensityRegionException whenever the patch holds
\* no positive value after the second-smallest unique value is subtracted and
\* the negatives are clipped, a patch of exactly two levels included.
C3_RaisesWhenNothingPositiveRemains ==
  (Finished("fit_elliplse") /\ NoPositiveAfterSubtraction(FittedPatch)) =>
    e_out.exc = NoIntensityRegionException

\* C4: fit_elliplse on a region whose patch is constant raises
\* NoIntensityRegionException, and raises it before a model is seeded or fitted.
C4_ConstantPatchRaisesBeforeSeeding ==
  (Finished("fit_elliplse") /\ Cardinality(Unique(FittedPatch)) = 1) =>
    /\ e_pc = "raised"
    /\ e_out.exc = NoIntensityRegionException
    /\ e_out.seed = None
    /\ e_out.gg = None

C4_Witness ==
  /\ Finished("fit_elliplse")
  /\ Cardinality(Unique(FittedPatch)) = 1
  /\ Cardinality(DOMAIN FittedPatch) > 1
  /\ e_out.exc = NoIntensityRegionException

\* C5: NoIntensityRegionException never leaves search_candidates_ell,
\* search_candidates_clf or get_ellipse_features_for_classification: a region
\* whose fit raises it is skipped in every pass, gives no candidate and no
\* feature, and the regions after it are still processed.
C5_NoIntensityRegionNeverEscapes ==
  (e_pc # "call" /\ e_call.fn \in EntryPoints) =>
    LET raising == RaisingRegions
        considered == ConsideredRegions
    IN
    /\ e_out.exc # NoIntensityRegionException
    /\ \A k \in raising :
         /\ k \notin SeqRange(e_out.accepted)
         /\ \A i \in 1 .. Len(e_out.features) : e_out.features[i].prop # k
    /\ e_out.estimator_called => e_out.skipped_first = raising
    /\ e_pc = "returned" =>
         /\ e_out.skipped = considered \cap raising
         /\ e_out.fitted = considered \ raising
         /\ Len(e_out.candidates) = Len(e_out.accepted)
         /\ e_call.fn = "get_ellipse_features_for_classification" =>
              {e_out.features[i].prop : i \in 1 .. Len(e_out.features)}
                = e_out.fitted

\* A region that raises is skipped in both passes of search_candidates_ell
\* and a region after it becomes a candidate
C5_Witness ==
  /\ Finished("search_candidates_ell")
  /\ e_pc = "returned"
  /\ e_out.skipped_first # {}
  /\ e_out.skipped # {}
  /\ \E i \in 1 .. Len(e_out.accepted) :
       \E k \in e_out.skipped : k < e_out.accepted[i]

\* C7 (as stated): a fitted region is accepted iff the five conditions hold,
\* the angle modulo 180 within the closed interval [theta_min, theta_max].
C7_AcceptedIffClosedInterval ==
  (Finished("search_candidates_ell") /\ e_pc = "returned") =>
    e_out.accepted =
      SelectSeq(FittedRegions,
                LAMBDA k : FiveConditions(e_fits[k][1], e_call.args,
                                          e_out.threshold[1], TRUE))

\* C7 (amended): a fitted region is accepted iff |x_stddev| > |x_stddev_min|,
\* |x_stddev*cos(theta)| > x_cos_theta_min, |y_stddev/x_stddev| <
\* y_to_x_stddev_max, amplitude > threshold, and the angle in degrees modulo
\* 180 lies strictly between theta_min and theta_max.
C7_AcceptedIffOpenInterval ==
  (Finished("search_candidates_ell") /\ e_pc = "returned") =>
    e_out.accepted =
      SelectSeq(FittedRegions,
                LAMBDA k : FiveConditionsAmended(e_fits[k][1], e_call.args,
                                                 e_out.threshold[1]))

\* Two fitted regions of one call, one with its angle exactly on theta_min
\* and one with its angle exactly on theta_max, the other four conditions
\* holding for both: neither is accepted
C7_Witness ==
  /\ Finished("search_candidates_ell")
  /\ e_pc = "returned"
  /\ \E k \in SeqRange(FittedRegions), m \in SeqRange(FittedRegions) :
       /\ Deg180(e_fits[k][1].theta) =
            [deg |-> e_call.args.theta_lims[1], excess |-> 0]
       /\ Deg180(e_fits[m][1].theta) =
            [deg |-> e_call.args.theta_lims[2], excess |-> 0]
       /\ FiveConditions(e_fits[k][1], e_call.args, e_out.threshold[1], TRUE)
       /\ FiveConditions(e_fits[m][1], e_call.args, e_out.threshold[1], TRUE)
       /\ k \notin SeqRange(e_out.accepted)
       /\ m \notin SeqRange(e_out.accepted)

----------------------------------------------------------------------------
(* Properties of create_ellipses *)

\* The bounding boxes of the regions of the opened first-pass image of the
\* last call that hold more than max_prop_size pixels
OversizedBoxesFor(args) ==
  LET props == regionprops(FilterPass(p_before, args,
                                      args.threshold_big_perc[1]))
  IN {props[k].bbox : k \in {j \in 1 .. Len(props) :
                               props[j].area > args.max_prop_size}}

OversizedBoxes == OversizedBoxesFor(p_args)

\* C11: after a call of create_ellipses with threshold_big_perc set, every
\* pixel of the bounding box of a region with more than max_prop_size pixels
\* holds the mean of the image the call was given, the same value for all such
\* regions, and every other pixel holds what it held before.
C11_BoxesHoldTheGlobalMean ==
  (p_pc = "once" /\ p_args.threshold_big_perc # None) =>
    LET boxes == OversizedBoxes
        mean == Mean(p_before)
    IN \A p \in PrePixels :
         p_tdm[p] = IF \E bb \in boxes : InBox(p, bb) THEN mean ELSE p_before[p]

\* C14: create_ellipses called with a statistic key that is not 'mean',
\* 'median' or 'gauss' raises, returns no image and leaves the caller's array
\* as it was, with threshold_big_perc set or None; with one of these keys it
\* does not raise.
C14_UnknownStatisticFailsFirst ==
  p_pc # "start" =>
    /\ (p_args.statistic \notin {"mean", "median", "gauss"}) <=> (p_pc = "raised")
    /\ p_pc = "raised" =>
         /\ p_tdm = p_before
         /\ p_first = ZeroArray
         /\ p_second = ZeroArray

\* An unknown key with threshold_big_perc set, on an array with an oversized
\* region that the key 'mean' would have overwritten
C14_Witness ==
  /\ p_pc = "raised"
  /\ p_args.statistic = "max"
  /\ p_args.threshold_big_perc # None
  /\ \E bb \in OversizedBoxesFor([p_args EXCEPT !.statistic = "mean"]) :
       \E p \in PrePixels : InBox(p, bb) /\ p_before[p] # Mean(p_before)

\* C10: two successive calls of create_ellipses with the same parameters on
\* the same array return equal images, regions larger than max_prop_size or
\* not.
C10_SecondCallReturnsTheSame ==
  p_pc = "twice" => p_second = p_first

----------------------------------------------------------------------------
(* Properties of the position-to-candidate conversion *)

\* candidate time = t_0 + col * d_t and candidate DM = row * d_dm
PeakToCandidate(row, col, a) == [time |-> a.t_0 + col * a.d_t, dm |-> row * a.d_dm]

\* The peak (row, col) of the i-th candidate of the finished ellipse-fitting
\* strategy: the fitted centre, moved by the corner of the bounding box
FittedPeak(i) ==
  LET k == e_out.accepted[i]
      bb == regionprops(image)[k].bbox
  IN <<e_fits[k][1].x_mean + bb[1], e_fits[k][1].y_mean + bb[2]>>

\* C12: search_candidates, search_candidates_ell and search_candidates_clf all
\* turn a peak (row, col) into the candidate (t_0 + col * d_t, row * d_dm):
\* rows are DM trials, columns time samples, in every strategy.
C12_SameConversionInEveryStrategy ==
  /\ s_pc = "returned" =>
       /\ Len(s_candidates) = Len(s_objects)
       /\ \A k \in 1 .. Len(s_objects) :
            s_candidates[k] = PeakToCandidate(s_objects[k].max_pos[1],
                                              s_objects[k].max_pos[2], s_args)
  /\ (e_pc = "returned"
      /\ e_call.fn \in {"search_candidates_ell", "search_candidates_clf"}) =>
       /\ Len(e_out.candidates) = Len(e_out.accepted)
       /\ \A i \in 1 .. Len(e_out.accepted) :
            e_out.candidates[i] = PeakToCandidate(FittedPeak(i)[1],
                                                  FittedPeak(i)[2], e_call.args)

\* A candidate of the classifier strategy whose row and column differ, with
\* different steps in time and DM
C12_Witness ==
  /\ Finished("search_candidates_clf")
  /\ e_pc = "returned"
  /\ e_call.args.d_t # e_call.args.d_dm
  /\ \E i \in 1 .. Len(e_out.candidates) :
       /\ FittedPeak(i)[1] # FittedPeak(i)[2]
       /\ FittedPeak(i)[2] # 0
       /\ e_out.candidates[i].dm # 0

----------------------------------------------------------------------------
(* Properties of search_candidates on one blob, and of the identities *)

\* The image is zero outside one 8-connected blob whose bounding box exceeds
\* both thresholds of the finished call
SingleBlob ==
  /\ Cardinality(Components(image)) = 1
  /\ PassingRegions = Components(image)

\* C13: on an image that is zero except for one 8-connected blob whose
\* bounding box exceeds both thresholds, search_candidates returns exactly one
\* candidate; its peak is a pixel of the blob that holds the blob's maximum,
\* and its time and DM are t_0 + col * d_t and row * d_dm of that pixel.
C13_SingleBlobGivesItsMaximum ==
  (s_pc # "call" /\ SingleBlob) =>
    /\ s_pc = "returned"
    /\ Len(s_candidates) = 1
    /\ LET pos == s_objects[1].max_pos
       IN /\ \E C \in Components(image) :
               pos \in C /\ \A q \in C : image[q] <= image[pos]
          /\ s_candidates[1].time = s_args.t_0 + pos[2] * s_args.d_t
          /\ s_candidates[1].dm = pos[1] * s_args.d_dm

\* A blob of several pixels whose maximum is not the first pixel in scan order
C13_Witness ==
  /\ s_pc = "returned"
  /\ SingleBlob
  /\ \E C \in Components(image) :
       /\ Cardinality(C) > 1
       /\ \E q \in C : image[q] < image[s_objects[1].max_pos]
       /\ Raster(s_objects[1].max_pos) # FirstPixel(C)

\* C16: (row, col) -> (t_0 + col * d_t, row * d_dm) is injective for non-zero
\* steps, the inverse recovering (row, col); the candidates of one call of
\* search_candidates come from distinct peak pixels and have pairwise distinct
\* (time, DM).
C16_CandidatesHaveDistinctIdentities ==
  (s_pc = "returned" /\ s_args.d_t # 0 /\ s_args.d_dm # 0) =>
    /\ \A k \in 1 .. Len(s_candidates) :
         /\ (s_candidates[k].time - s_args.t_0) % s_args.d_t = 0
         /\ s_candidates[k].dm % s_args.d_dm = 0
         /\ s_objects[k].max_pos =
              <<s_candidates[k].dm \div s_args.d_dm,
                (s_candidates[k].time - s_args.t_0) \div s_args.d_t>>
    /\ \A i, j \in 1 .. Len(s_candidates) :
         i # j => /\ s_objects[i].max_pos # s_objects[j].max_pos
                  /\ s_candidates[i] # s_candidates[j]

\* Two candidates of one call, from peaks in different rows and columns, with
\* steps other than 1 and a time origin other than 0
C16_Witness ==
  /\ s_pc = "returned"
  /\ s_args.d_t > 1 /\ s_args.d_dm > 1 /\ s_args.t_0 # 0
  /\ \E i, j \in 1 .. Len(s_candidates) :
       /\ i # j
       /\ s_candidates[i].time # s_candidates[j].time
       /\ s_candidates[i].dm # s_candidates[j].dm

----------------------------------------------------------------------------
(* Properties of the estimator when nothing lies above the tail bound *)

\* The amplitudes the estimator of the finished search_candidates_ell call
\* labelled outlier and found above the tail bound
EllConfirmedOutliers ==
  {e_out.amplitudes[j] : j \in {k \in 1 .. Len(e_out.estimate.labels) :
       /\ e_out.estimate.labels[k] = -1
       /\ e_out.amplitudes[k] > e_out.estimate.tail[1]}}

\* C17: when no amplitude labelled -1 exceeds the Rayleigh tail bound, no
\* amplitude being labelled -1 included, find_clusters_ell_amplitudes raises
\* and returns no threshold, and search_candidates_ell called without an
\* amplitude raises with it and returns no candidate list.
C17_NothingAboveTheTailRaises ==
  /\ (c_pc # "call" /\ c_out.tail # None /\ ConfirmedOutliers = {}) =>
       /\ c_pc = "raised"
       /\ c_out.exc = "ValueError"
       /\ c_out.threshold = None
  /\ (Finished("search_candidates_ell") /\ e_call.args.amplitude = None
      /\ e_out.estimate.tail # None /\ EllConfirmedOutliers = {}) =>
       /\ e_pc = "raised"
       /\ e_out.exc = "ValueError"
       /\ e_out.threshold = None
       /\ e_out.candidates = <<>>

\* search_candidates_ell fitted two regions with different amplitudes, none
\* of them above the tail bound, and raised
C17_Witness ==
  /\ Finished("search_candidates_ell")
  /\ e_pc = "raised"
  /\ e_out.estimate.tail # None
  /\ Len(e_out.amplitudes) > 1
  /\ EllConfirmedOutliers = {}
  /\ \E k \in 1 .. Len(e_fits) :
       e_fits[k] # None /\ Accepts(e_fits[k][1], e_call.args, GivenThreshold(0))

============================================================================
